---- MODULE Spec2Model ----
(***************************************************************************)
(* Model of pkg/storage/bucketstorage.go: NewBucketStorage (decode the     *)
(* envelope, re-marshal the nested config, derive the cluster identifier,  *)
(* dispatch on the provider tag), getClusterIdentifier, trimLeading and    *)
(* trimName.  Go strings are sequences of one-character strings.           *)
(***************************************************************************)
EXTENDS Integers, Sequences, FiniteSets, TLC

VARIABLES
    envClusterID,   \* value of env.GetClusterID(), process-wide
    pc,             \* position of the NewBucketStorage call
    doc,            \* the config bytes handed to NewBucketStorage
    storageConfig,  \* the decoded *StorageConfig
    config,         \* local `config` after yaml.Marshal (line 42)
    lookup,         \* what namespaces.Get returned to getClusterIdentifier
    clusterID,      \* local clusterID of NewBucketStorage (line 47)
    ctorRet,        \* what the provider constructor returned
    ret,            \* what NewBucketStorage returned
    calls,          \* collaborator calls made by the current call, in order
    file,           \* argument of the path helper under test
    fn,             \* path helper under test
    res             \* successive results of applying fn, starting from file

vars == <<envClusterID, pc, doc, storageConfig, config, lookup, clusterID,
          ctorRet, ret, calls, file, fn, res>>

callVars == <<envClusterID, pc, doc, storageConfig, config, lookup, clusterID,
              ctorRet, ret, calls>>
pathVars == <<file, fn, res>>

----------------------------------------------------------------------------
\* Bounds of the model

MaxUIDLen == 16
MaxPathLen == 5
MaxApply == 2

----------------------------------------------------------------------------
\* Strings

Lower == <<"a","b","c","d","e","f","g","h","i","j","k","l","m",
           "n","o","p","q","r","s","t","u","v","w","x","y","z">>
UpperLetters == <<"A","B","C","D","E","F","G","H","I","J","K","L","M",
                  "N","O","P","Q","R","S","T","U","V","W","X","Y","Z">>

\* strings.ToUpper on one character
UpperChar(c) ==
    IF \E i \in 1..26 : Lower[i] = c
    THEN UpperLetters[CHOOSE i \in 1..26 : Lower[i] = c]
    ELSE c

ToUpper_Identity(s) == s

\* strings.ToUpper
ToUpper(s) == [i \in 1..Len(s) |-> UpperChar(s[i])]

\* s[:n] of Go: defined only for n <= len(s); the caller checks SliceOK
SliceOK(s, n) == n <= Len(s)
SliceTo(s, n) == SubSeq(s, 1, n)
\* s[n:] of Go, 0-based n
SliceFrom(s, n) == SubSeq(s, n + 1, Len(s))

\* strings.LastIndex(s, "/"), 0-based, -1 when absent
LastIndex(s, c) ==
    IF \E i \in 1..Len(s) : s[i] = c
    THEN (CHOOSE i \in 1..Len(s) : s[i] = c /\ \A j \in (i+1)..Len(s) : s[j] # c) - 1
    ELSE -1

----------------------------------------------------------------------------
\* Provider enumeration (lines 19-23)

S3 == <<"S","3">>
GCS == <<"G","C","S">>
AZURE == <<"A","Z","U","R","E">>

----------------------------------------------------------------------------
\* Path helpers

trimLeading_DropFirst(f) ==
    IF Len(f) = 0 THEN f
    ELSE SliceFrom(f, 1)

trimLeading(f) ==
    IF Len(f) = 0 THEN f
    ELSE IF f[1] = "/" THEN SliceFrom(f, 1)
    ELSE f

trimName_KeepSlash(f) ==
    LET slashIndex == LastIndex(f, "/")
    IN  IF slashIndex < 0 THEN f
        ELSE SliceFrom(f, slashIndex)

trimName(f) ==
    LET slashIndex == LastIndex(f, "/")
    IN  IF slashIndex < 0 THEN f
        ELSE SliceFrom(f, slashIndex + 1)

----------------------------------------------------------------------------
\* Inputs

NilErr == [nil |-> TRUE, msg |-> <<>>, cause |-> <<>>]

\* errors.Wrap(err, msg) / errors.Errorf(msg): message plus underlying cause
Wrap(cause, msg) == [nil |-> FALSE, msg |-> msg, cause |-> cause]
Errorf(msg) == [nil |-> FALSE, msg |-> msg, cause |-> <<>>]

Tags ==
    { <<"s","3">>, <<"S","3">>, <<"G","c","s">>, <<"G","C","S">>,
      <<"a","z","u","r","e">>, <<"A","Z","U","R","E">>, <<"A","z","u","r","e">>,
      <<"u","n","k","n","o","w","n">>, <<"S","4">>, <<"s","3","x">>, <<>> }

Payloads == {"bucket: x", "bucket: y"}

\* The documents a caller can pass: well formed or not, with or without a
\* top-level key besides type and config.
Docs == [wellFormed : BOOLEAN, extraKey : BOOLEAN, type : Tags, config : Payloads]

\* the bytes of a document
Bytes(d) ==
    <<"type: ">> \o d.type \o <<"config: ", d.config>>
        \o (IF d.extraKey THEN <<"other: z">> ELSE <<>>)
        \o (IF d.wellFormed THEN <<>> ELSE <<"{">>)

FullUID == <<"a","b","c","d","e","f","g","h","i","j","k","l","m","n","o","p",
             "q","r","s","t","u","v","w","x">>
UIDs == { SubSeq(FullUID, 1, n) : n \in 0..MaxUIDLen }

ClusterIDs == { <<>>, <<"p","r","o","d">>, <<"x">> }

\* namespaces.Get(ctx, "kube-system", ...): an error, or a namespace with a UID
LookupResults ==
    { [err |-> TRUE, uid |-> <<>>] } \cup { [err |-> FALSE, uid |-> u] : u \in UIDs }

NoLookup == [err |-> FALSE, uid |-> <<>>]

\* What a provider constructor hands back: a handle, an error, or both
CtorOutcomes(handle) ==
    { [storage |-> handle, err |-> NilErr],
      [storage |-> "nil", err |-> Errorf(<<"missing credentials">>)],
      [storage |-> handle, err |-> Errorf(<<"missing credentials">>)] }

NoRet == [storage |-> "nil", err |-> NilErr]

NoConfig == [Type |-> <<>>, Config |-> ""]

----------------------------------------------------------------------------
UnmarshalStrict_Lenient(d) ==
    IF d.wellFormed
    THEN [err |-> NilErr, val |-> [Type |-> d.type, Config |-> d.config]]
    ELSE [err |-> Errorf(<<"yaml: unmarshal errors">>), val |-> NoConfig]

\* yaml.UnmarshalStrict(config, storageConfig): fails on a malformed document
\* and on a key that StorageConfig has no field for
UnmarshalStrict(d) ==
    IF d.wellFormed /\ ~d.extraKey
    THEN [err |-> NilErr, val |-> [Type |-> d.type, Config |-> d.config]]
    ELSE [err |-> Errorf(<<"yaml: unmarshal errors">>), val |-> NoConfig]

\* yaml.Marshal(storageConfig.Config): the sub-document alone
Marshal(v) == <<"config: ", v>>

getClusterIdentifier_LookupFatal(envID, ns) ==
    IF ns.err THEN [panic |-> TRUE, val |-> <<>>]
    ELSE IF envID # <<>>
         THEN IF SliceOK(ns.uid, 5)
              THEN [panic |-> FALSE, val |-> SliceTo(ns.uid, 5) \o <<"-">> \o envID]
              ELSE [panic |-> TRUE, val |-> <<>>]
         ELSE IF SliceOK(ns.uid, 10)
              THEN [panic |-> FALSE, val |-> SliceTo(ns.uid, 10)]
              ELSE [panic |-> TRUE, val |-> <<>>]

getClusterIdentifier_SameCut(envID, ns) ==
    IF ns.err THEN [panic |-> FALSE, val |-> <<>>]
    ELSE IF envID # <<>>
         THEN IF SliceOK(ns.uid, 10)
              THEN [panic |-> FALSE, val |-> SliceTo(ns.uid, 10) \o <<"-">> \o envID]
              ELSE [panic |-> TRUE, val |-> <<>>]
         ELSE IF SliceOK(ns.uid, 10)
              THEN [panic |-> FALSE, val |-> SliceTo(ns.uid, 10)]
              ELSE [panic |-> TRUE, val |-> <<>>]

\* getClusterIdentifier: the lookup result and env.GetClusterID() decide;
\* a slice bound beyond the length of the UID is a run-time panic
getClusterIdentifier(envID, ns) ==
    IF ns.err THEN [panic |-> FALSE, val |-> <<>>]
    ELSE IF envID # <<>>
         THEN IF SliceOK(ns.uid, 5)
              THEN [panic |-> FALSE, val |-> SliceTo(ns.uid, 5) \o <<"-">> \o envID]
              ELSE [panic |-> TRUE, val |-> <<>>]
         ELSE IF SliceOK(ns.uid, 10)
              THEN [panic |-> FALSE, val |-> SliceTo(ns.uid, 10)]
              ELSE [panic |-> TRUE, val |-> <<>>]

\* the constructor the switch of NewBucketStorage selects, "" for default
SelectConstructor(type) ==
    LET t == ToUpper(type)
    IN  IF t = S3 THEN "NewS3Storage"
        ELSE IF t = GCS THEN "NewGCSStorage"
        ELSE IF t = AZURE THEN "NewAzureStorage"
        ELSE ""

Handle(ctor) ==
    IF ctor = "NewS3Storage" THEN "S3Storage"
    ELSE IF ctor = "NewGCSStorage" THEN "GCSStorage"
    ELSE "AzureStorage"

ConstructorReturn_KeepHandle(type, r) ==
    IF ~r.err.nil
    THEN [storage |-> r.storage,
          err |-> Wrap(r.err.msg, <<"create ">> \o type \o <<" client">>)]
    ELSE [storage |-> r.storage, err |-> NilErr]

\* lines 61-65: what NewBucketStorage returns once the constructor is back
ConstructorReturn(type, r) ==
    IF ~r.err.nil
    THEN [storage |-> "nil",
          err |-> Wrap(r.err.msg, <<"create ">> \o type \o <<" client">>)]
    ELSE [storage |-> r.storage, err |-> NilErr]

UnsupportedReturn_Upper(type) ==
    [storage |-> "nil",
     err |-> Errorf(<<"storage with type ">> \o ToUpper(type) \o <<" is not supported">>)]

\* line 59
UnsupportedReturn(type) ==
    [storage |-> "nil",
     err |-> Errorf(<<"storage with type ">> \o type \o <<" is not supported">>)]

ConstructorArg_Original(cfg, d) == Bytes(d)

\* the argument the selected constructor is called with
ConstructorArg(cfg, d) == cfg

----------------------------------------------------------------------------
\* NewBucketStorage, one action per stage

Init ==
    /\ envClusterID \in ClusterIDs
    /\ pc = "idle"
    /\ doc = [wellFormed |-> TRUE, extraKey |-> FALSE, type |-> <<>>, config |-> "bucket: x"]
    /\ storageConfig = NoConfig
    /\ config = <<>>
    /\ lookup = NoLookup
    /\ clusterID = <<>>
    /\ ctorRet = NoRet
    /\ ret = NoRet
    /\ calls = <<>>
    /\ file = <<>>
    /\ fn = "none"
    /\ res = <<>>

\* a caller invokes NewBucketStorage(namespaces, config)
Call ==
    /\ pc \in {"idle", "done"}
    /\ \E d \in Docs :
        /\ doc' = d
        /\ config' = Bytes(d)
    /\ storageConfig' = NoConfig
    /\ lookup' = NoLookup
    /\ clusterID' = <<>>
    /\ ctorRet' = NoRet
    /\ ret' = NoRet
    /\ calls' = <<>>
    /\ pc' = "unmarshal"
    /\ UNCHANGED <<envClusterID, pathVars>>

\* lines 35-38
Unmarshal ==
    /\ pc = "unmarshal"
    /\ LET r == UnmarshalStrict(doc)
       IN  IF ~r.err.nil
           THEN /\ ret' = [storage |-> "nil",
                           err |-> Wrap(r.err.msg, <<"parsing config YAML file">>)]
                /\ pc' = "done"
                /\ UNCHANGED storageConfig
           ELSE /\ storageConfig' = r.val
                /\ pc' = "marshal"
                /\ UNCHANGED ret
    /\ UNCHANGED <<envClusterID, doc, config, lookup, clusterID, ctorRet, calls, pathVars>>

\* lines 42-45; whether yaml.Marshal fails is the library's choice
MarshalConfig ==
    /\ pc = "marshal"
    /\ \E failed \in BOOLEAN :
        IF failed
        THEN /\ ret' = [storage |-> "nil",
                        err |-> Wrap(<<"yaml: marshal error">>,
                                     <<"marshal content of storage configuration">>)]
             /\ pc' = "done"
             /\ UNCHANGED config
        ELSE /\ config' = Marshal(storageConfig.Config)
             /\ pc' = "clusterid"
             /\ UNCHANGED ret
    /\ UNCHANGED <<envClusterID, doc, storageConfig, lookup, clusterID, ctorRet, calls, pathVars>>

\* lines 47-48 with getClusterIdentifier (lines 91-104)
GetClusterIdentifier ==
    /\ pc = "clusterid"
    /\ \E ns \in LookupResults :
        LET r == getClusterIdentifier(envClusterID, ns)
        IN  /\ lookup' = ns
            /\ calls' = Append(calls, [op |-> "Get", arg |-> <<"kube-system">>])
            /\ IF r.panic
               THEN /\ pc' = "panic"
                    /\ UNCHANGED clusterID
               ELSE /\ pc' = "dispatch"
                    /\ clusterID' = r.val
    /\ UNCHANGED <<envClusterID, doc, storageConfig, config, ctorRet, ret, pathVars>>

Dispatch_Retry ==
    /\ pc = "dispatch"
    /\ LET ctor == SelectConstructor(storageConfig.Type)
       IN  IF ctor = ""
           THEN /\ ret' = UnsupportedReturn(storageConfig.Type)
                /\ UNCHANGED <<ctorRet, calls>>
           ELSE \E r1, r \in CtorOutcomes(Handle(ctor)) :
                /\ calls' = IF r1.err.nil
                            THEN Append(calls, [op |-> ctor, arg |-> ConstructorArg(config, doc)])
                            ELSE calls \o << [op |-> ctor, arg |-> ConstructorArg(config, doc)],
                                             [op |-> ctor, arg |-> ConstructorArg(config, doc)] >>
                /\ ctorRet' = IF r1.err.nil THEN r1 ELSE r
                /\ ret' = ConstructorReturn(storageConfig.Type, ctorRet')
    /\ pc' = "done"
    /\ UNCHANGED <<envClusterID, doc, storageConfig, config, lookup, clusterID, pathVars>>

\* lines 50-65
Dispatch ==
    /\ pc = "dispatch"
    /\ LET ctor == SelectConstructor(storageConfig.Type)
       IN  IF ctor = ""
           THEN /\ ret' = UnsupportedReturn(storageConfig.Type)
                /\ UNCHANGED <<ctorRet, calls>>
           ELSE \E r \in CtorOutcomes(Handle(ctor)) :
                /\ calls' = Append(calls, [op |-> ctor, arg |-> ConstructorArg(config, doc)])
                /\ ctorRet' = r
                /\ ret' = ConstructorReturn(storageConfig.Type, r)
    /\ pc' = "done"
    /\ UNCHANGED <<envClusterID, doc, storageConfig, config, lookup, clusterID, pathVars>>

Next == Call \/ Unmarshal \/ MarshalConfig \/ GetClusterIdentifier \/ Dispatch

Spec == Init /\ [][Next]_vars

----------------------------------------------------------------------------
\* The path helpers, applied repeatedly to a path

Chars == {"/", "a", "b", "c"}
RECURSIVE PathsOfLen(_)
PathsOfLen(n) ==
    IF n = 0 THEN { <<>> }
    ELSE { Append(p, c) : p \in PathsOfLen(n - 1), c \in Chars }
Paths == UNION { PathsOfLen(n) : n \in 0..MaxPathLen }

Last(f, r) == IF r = <<>> THEN f ELSE r[Len(r)]

InitPath ==
    /\ envClusterID = <<>>
    /\ pc = "idle"
    /\ doc = [wellFormed |-> TRUE, extraKey |-> FALSE, type |-> <<>>, config |-> "bucket: x"]
    /\ storageConfig = NoConfig
    /\ config = <<>>
    /\ lookup = NoLookup
    /\ clusterID = <<>>
    /\ ctorRet = NoRet
    /\ ret = NoRet
    /\ calls = <<>>
    /\ file \in Paths
    /\ fn = "none"
    /\ res = <<>>

TrimLeading ==
    /\ fn \in {"none", "trimLeading"}
    /\ Len(res) < MaxApply
    /\ fn' = "trimLeading"
    /\ res' = Append(res, trimLeading(Last(file, res)))
    /\ UNCHANGED <<file, callVars>>

TrimName ==
    /\ fn \in {"none", "trimName"}
    /\ Len(res) < MaxApply
    /\ fn' = "trimName"
    /\ res' = Append(res, trimName(Last(file, res)))
    /\ UNCHANGED <<file, callVars>>

NextPath == TrimLeading \/ TrimName

SpecPath == InitPath /\ [][NextPath]_vars

----------------------------------------------------------------------------
\* Properties

Min(a, b) == IF a < b THEN a ELSE b

\* the first n characters of s, or all of s when it is shorter
FirstN(s, n) == SubSeq(s, 1, Min(n, Len(s)))

\* t is u up to the case of its letters (u in upper case)
IsCaseVariant(t, u) ==
    /\ Len(t) = Len(u)
    /\ \A i \in 1..Len(t) :
        \/ t[i] = u[i]
        \/ \E k \in 1..26 : Lower[k] = t[i] /\ UpperLetters[k] = u[i]

Unsupported(t) == \A u \in {S3, GCS, AZURE} : ~IsCaseVariant(t, u)

IsCtorCall(e) == e.op # "Get"
CtorCalls == SelectSeq(calls, IsCtorCall)

\* both decoding steps of the current call succeeded
Decoded ==
    /\ pc \in {"clusterid", "dispatch", "panic", "done"}
    /\ doc.wellFormed /\ ~doc.extraKey
    /\ config = <<"config: ", doc.config>>

\* the current call failed in one of the two decoding steps
DecodeFailed == pc = "done" /\ config = Bytes(doc)

\* the call went through getClusterIdentifier and came back from it
Derived == pc \in {"dispatch", "done"} /\ Len(calls) >= 1

\* C1: with a successful kube-system lookup getClusterIdentifier returns
\* normally whatever the length of the UID, so NewBucketStorage never aborts
\* in it.
C1_NeverPanics == pc # "panic"

\* C2: a decoded envelope whose type is no case variant of S3, GCS or AZURE
\* never reaches a provider constructor, and the call returns a nil handle
\* with an error naming the tag as written in the input.
C2_UnsupportedProvider ==
    (Decoded /\ Unsupported(doc.type)) =>
        /\ CtorCalls = <<>>
        /\ pc = "done" =>
            /\ ret.storage = "nil"
            /\ ~ret.err.nil
            /\ ret.err.msg = <<"storage with type ">> \o doc.type \o <<" is not supported">>

C2_Witness ==
    /\ pc = "done"
    /\ Decoded
    /\ ~lookup.err
    /\ doc.type = <<"u","n","k","n","o","w","n">>
    /\ ret.err.msg = <<"storage with type ","u","n","k","n","o","w","n"," is not supported">>

\* C3: a tag that is a case variant of S3, GCS or AZURE makes dispatch call
\* the constructor of that member, and no other, with the re-serialized
\* config sub-document.
C3_CaseInsensitiveDispatch ==
    (pc = "done" /\ Decoded) =>
        /\ IsCaseVariant(doc.type, S3) =>
            CtorCalls = << [op |-> "NewS3Storage", arg |-> <<"config: ", doc.config>>] >>
        /\ IsCaseVariant(doc.type, GCS) =>
            CtorCalls = << [op |-> "NewGCSStorage", arg |-> <<"config: ", doc.config>>] >>
        /\ IsCaseVariant(doc.type, AZURE) =>
            CtorCalls = << [op |-> "NewAzureStorage", arg |-> <<"config: ", doc.config>>] >>

C3_Witness ==
    /\ pc = "done"
    /\ doc.type = <<"G","c","s">>
    /\ doc.config = "bucket: y"
    /\ CtorCalls = << [op |-> "NewGCSStorage", arg |-> <<"config: ", "bucket: y">>] >>

\* C4: a failed lookup gives the empty identifier whatever the external
\* cluster id, the call goes on to dispatch, and what the call returns is
\* decided by the tag and the constructor alone, lookup failed or not.
C4_LookupFailureNonFatal ==
    /\ lookup.err => (clusterID = <<>> /\ pc \in {"dispatch", "done"})
    /\ (pc = "done" /\ Decoded) =>
        ret = IF Unsupported(doc.type)
              THEN UnsupportedReturn(doc.type)
              ELSE ConstructorReturn(doc.type, ctorRet)

C4_Witness ==
    /\ pc = "done"
    /\ lookup.err
    /\ envClusterID = <<"p","r","o","d">>
    /\ clusterID = <<>>
    /\ Len(CtorCalls) = 1
    /\ ret.storage = "S3Storage"

\* C5: a returned call has exactly one of handle and error; when the
\* constructor failed the handle is nil, even if the constructor returned
\* one, the error wraps the constructor's error under the provider tag, and
\* the constructor was called once.
C5_HandleXorError ==
    pc = "done" =>
        /\ (ret.storage # "nil") # (~ret.err.nil)
        /\ (Len(CtorCalls) >= 1 /\ ~ctorRet.err.nil) =>
            /\ ret.storage = "nil"
            /\ ret.err.msg = <<"create ">> \o doc.type \o <<" client">>
            /\ ret.err.cause = ctorRet.err.msg
            /\ Len(CtorCalls) = 1

C5_Witness ==
    /\ pc = "done"
    /\ ctorRet.storage = "AzureStorage"
    /\ ~ctorRet.err.nil
    /\ ret.storage = "nil"
    /\ ret.err.cause = <<"missing credentials">>

\* C6: after a successful lookup the identifier is the first 5 characters of
\* the UID, "-" and the external cluster id when that id is non-empty, and
\* the first 10 characters of the UID when it is empty.
C6_IdentifierFormat ==
    (Derived /\ ~lookup.err) =>
        clusterID = IF envClusterID # <<>>
                    THEN FirstN(lookup.uid, 5) \o <<"-">> \o envClusterID
                    ELSE FirstN(lookup.uid, 10)

C6_Witness ==
    /\ Derived
    /\ lookup = [err |-> FALSE, uid |-> SubSeq(FullUID, 1, 16)]
    /\ envClusterID = <<"p","r","o","d">>
    /\ clusterID = <<"a","b","c","d","e","-","p","r","o","d">>

\* C7 as claimed: trimLeading applied twice gives what it gives applied
\* once, for every path.
C7_Idempotent ==
    (fn = "trimLeading" /\ Len(res) >= 2) => res[2] = res[1]

\* C7: trimLeading returns the empty path unchanged, drops the one leading
\* "/" of a path that starts with it and leaves any other path unchanged;
\* applied twice it gives what it gives applied once on every path that does
\* not start with two separators.
C7_StripsOneSeparator ==
    fn = "trimLeading" =>
        /\ Len(res) >= 1 =>
            res[1] = IF file = <<>> THEN file
                     ELSE IF Head(file) = "/" THEN Tail(file)
                     ELSE file
        /\ (Len(res) >= 2 /\ ~(Len(file) >= 2 /\ file[1] = "/" /\ file[2] = "/")) =>
            res[2] = res[1]

C7_Witness ==
    /\ fn = "trimLeading"
    /\ Len(res) = 2
    /\ file = <<"/","a","/","b">>
    /\ res[1] = <<"a","/","b">>
    /\ res[2] = <<"a","/","b">>

\* C8: a call that fails in decoding (strict decoding of the envelope or
\* re-encoding of the config) returns a nil handle and a wrapped decode
\* error, and has made no namespace lookup and no constructor call.
C8_DecodeFailureFirst ==
    /\ (pc # "idle" /\ (~doc.wellFormed \/ doc.extraKey)) =>
        (pc \in {"unmarshal", "done"} /\ calls = <<>>)
    /\ DecodeFailed =>
        /\ ret.storage = "nil"
        /\ ~ret.err.nil
        /\ ret.err.msg \in { <<"parsing config YAML file">>,
                             <<"marshal content of storage configuration">> }
        /\ ret.err.cause # <<>>
        /\ calls = <<>>
        /\ lookup = NoLookup

C8_Witness ==
    /\ pc = "done"
    /\ doc.wellFormed
    /\ doc.extraKey
    /\ ret.storage = "nil"
    /\ ret.err.msg = <<"parsing config YAML file">>
    /\ calls = <<>>

\* C9: the collaborator calls of one call are, in order, one kube-system
\* lookup made after decoding and then at most one constructor call; the
\* lookup is made in every decoded call, also for an unsupported tag, and a
\* successful call has called one constructor and returns its one handle.
C9_StageOrder ==
    /\ Len(calls) <= 2
    /\ Len(calls) >= 1 => (calls[1].op = "Get" /\ Decoded)
    /\ Len(calls) = 2 => (calls[2].op # "Get" /\ pc = "done")
    /\ (Decoded /\ pc # "clusterid") => (Len(calls) >= 1 /\ Len(calls) - Len(CtorCalls) = 1)
    /\ (pc = "done" /\ ret.err.nil) =>
        (Len(CtorCalls) = 1 /\ ret.storage # "nil" /\ ret.storage = ctorRet.storage)

C9_Witness ==
    /\ pc = "done"
    /\ Len(calls) = 2
    /\ calls[1].op = "Get"
    /\ calls[2].op = "NewAzureStorage"
    /\ ret.err.nil
    /\ ret.storage = "AzureStorage"

\* C10: trimName returns what follows the last "/" of its input, the whole
\* input when there is none; the result has no "/" and trimName leaves it
\* unchanged.
C10_BaseName ==
    (fn = "trimName" /\ Len(res) >= 1) =>
        /\ \E k \in 0..Len(file) :
            /\ res[1] = SubSeq(file, k + 1, Len(file))
            /\ k = 0 \/ file[k] = "/"
        /\ \A i \in 1..Len(res[1]) : res[1][i] # "/"
        /\ Len(res) >= 2 => res[2] = res[1]

C10_Witness ==
    /\ fn = "trimName"
    /\ Len(res) = 2
    /\ file = <<"a","/","b","/","c">>
    /\ res[1] = <<"c">>
    /\ res[2] = <<"c">>

====
